---- MODULE Spec2Model ----
(***************************************************************************)
(* Static Huffman text codec: src/Huffman/main.py (version 2.0) and the    *)
(* tree builder it is based on, src/huffman.py (version 1.0).              *)
(*                                                                         *)
(* Python objects are modelled as follows.                                 *)
(*  - Node objects live in an arena `nodes` (a sequence of records); a     *)
(*    reference to a Node is its index in the arena and None is 0.         *)
(*  - A dict is the sequence of its <<key, value>> pairs in insertion      *)
(*    order (Python dicts keep insertion order).                           *)
(*  - A code (a Python str of '0'/'1') is a sequence of the one-character  *)
(*    strings "0" and "1"; a bitarray is a sequence of the integers 0/1.   *)
(*  - Python positions are 0-based: position p of a list is element p+1    *)
(*    of the sequence that models it.                                      *)
(***************************************************************************)
EXTENDS Integers, Sequences, FiniteSets, TLC

VARIABLES
    text,          \* encode_file: the text read from the input file
    pc,            \* position of the running call
    result,        \* encode_file: what the call returned
    characters,    \* huffmanCodes: parameter s
    frequencies,   \* huffmanCodes: parameter freq
    i,             \* huffmanCodes: number of leaves pushed so far
    nodes,         \* arena of the Node objects created so far
    pq,            \* huffmanCodes: the heap list
    l,             \* huffmanCodes: node popped first in the last iteration
    r,             \* huffmanCodes: node popped second in the last iteration
    merges,        \* huffmanCodes: iterations of the while loop run so far
    codes_dic,     \* huffmanCodes: returned code table
    root,          \* huffmanCodes: returned root
    encoded_bits,  \* encode_file: the bitarray, after padding
    padding,       \* encode_file: the padding count
    file,          \* the .huff file: header and payload bytes
    dec_inv,       \* outcome of decode_file_inverse
    dec_tree       \* outcome of decode_file_tree

vars == <<text, pc, result, characters, frequencies, i, nodes, pq, l, r, merges,
          codes_dic, root, encoded_bits, padding, file, dec_inv, dec_tree>>

-----------------------------------------------------------------------------
(* Bounds of the model and constants of the program *)

\* longest text given to encode_file
MaxLen == 7

\* largest count of one symbol in a frequency table given to huffmanCodes
MaxFreq == 2

\* bits per byte of the packed payload
BitsPerByte == 8

\* the characters a text is made of
TextSyms == {"a", "b", "c"}

\* the symbols of the frequency tables given directly to huffmanCodes
CodeSyms == <<"a", "b", "c", "d", "e", "f">>

\* the symbols of the headers of arbitrary container files
ContainerSyms == <<"a", "b", "c">>

None == 0

-----------------------------------------------------------------------------
(* Python dict, as the sequence of its items in insertion order *)

EmptyDict == <<>>

DictKeys(d) == [k \in 1..Len(d) |-> d[k][1]]

DictValues(d) == [k \in 1..Len(d) |-> d[k][2]]

DictHas(d, key) == \E k \in 1..Len(d) : d[k][1] = key

DictGet(d, key) == d[CHOOSE k \in 1..Len(d) : d[k][1] = key][2]

\* d[key] = value: an existing key keeps its place, a new key goes last
DictSet(d, key, value) ==
    IF DictHas(d, key)
    THEN [k \in 1..Len(d) |-> IF d[k][1] = key THEN <<key, value>> ELSE d[k]]
    ELSE Append(d, <<key, value>>)

-----------------------------------------------------------------------------
(* Node and the heap of Nodes *)

NewNode(x, character) == [data |-> x, char |-> character, left |-> None, right |-> None]

IsLeaf(ns, n) == ns[n].left = None /\ ns[n].right = None

\* a mutation of Lt: the comparison reversed
LtReversed(ns, x, y) == ns[x].data > ns[y].data

Lt(ns, x, y) == ns[x].data < ns[y].data

RECURSIVE siftdown_loop(_, _, _, _, _)
siftdown_loop(ns, heap, startpos, pos, newitem) ==
    IF pos > startpos
    THEN LET parentpos == (pos - 1) \div 2
             parent == heap[parentpos + 1]
         IN  IF Lt(ns, newitem, parent)
             THEN siftdown_loop(ns, [heap EXCEPT ![pos + 1] = parent],
                                startpos, parentpos, newitem)
             ELSE [heap EXCEPT ![pos + 1] = newitem]
    ELSE [heap EXCEPT ![pos + 1] = newitem]

siftdown(ns, heap, startpos, pos) ==
    siftdown_loop(ns, heap, startpos, pos, heap[pos + 1])

RECURSIVE siftup_loop(_, _, _, _)
siftup_loop(ns, heap, pos, newitem) ==
    LET endpos == Len(heap)
        childpos == 2 * pos + 1
    IN  IF childpos < endpos
        THEN LET rightpos == childpos + 1
                 c == IF rightpos < endpos
                         /\ ~Lt(ns, heap[childpos + 1], heap[rightpos + 1])
                      THEN rightpos
                      ELSE childpos
             IN  siftup_loop(ns, [heap EXCEPT ![pos + 1] = heap[c + 1]], c, newitem)
        ELSE [heap |-> [heap EXCEPT ![pos + 1] = newitem], pos |-> pos]

siftup(ns, heap, pos) ==
    LET moved == siftup_loop(ns, heap, pos, heap[pos + 1])
    IN  siftdown(ns, moved.heap, pos, moved.pos)

heappush(ns, heap, item) == siftdown(ns, Append(heap, item), 0, Len(heap))

\* the heap must not be empty (heappop raises IndexError on an empty list)
heappop(ns, heap) ==
    LET lastelt == heap[Len(heap)]
        rest == SubSeq(heap, 1, Len(heap) - 1)
    IN  IF rest # <<>>
        THEN [item |-> rest[1], heap |-> siftup(ns, [rest EXCEPT ![1] = lastelt], 0)]
        ELSE [item |-> lastelt, heap |-> rest]

-----------------------------------------------------------------------------
(* preOrder: the code of every leaf, '0' to the left and '1' to the right *)

RECURSIVE preOrder(_, _, _, _)
preOrder(ns, n, ans, curr) ==
    IF n = None
    THEN ans
    ELSE IF IsLeaf(ns, n)
         THEN DictSet(ans, ns[n].char, curr)
         ELSE preOrder(ns, ns[n].right,
                       preOrder(ns, ns[n].left, ans, Append(curr, "0")),
                       Append(curr, "1"))

-----------------------------------------------------------------------------
(* huffmanCodes(s, freq), one action per loop iteration *)

\* what huffmanCodes leaves alone
EncodeUnchanged == UNCHANGED <<text, result, encoded_bits, padding, file, dec_inv, dec_tree>>

\* for i in range(n): heappush(pq, Node(freq[i], s[i]))
PushLeaf ==
    /\ pc = "push"
    /\ i < Len(characters)
    /\ LET tmp == NewNode(frequencies[i + 1], characters[i + 1])
           ns == Append(nodes, tmp)
       IN  /\ nodes' = ns
           /\ pq' = heappush(ns, pq, Len(ns))
    /\ i' = i + 1
    /\ UNCHANGED <<pc, characters, frequencies, l, r, merges, codes_dic, root>>
    /\ EncodeUnchanged

\* a mutation of SpecialCase: the single-character case is not treated apart
SpecialCaseMissing ==
    /\ pc = "push"
    /\ i = Len(characters)
    /\ pc' = "loop"
    /\ UNCHANGED <<characters, frequencies, i, nodes, pq, l, r, merges, codes_dic, root>>
    /\ EncodeUnchanged

\* if len(pq) == 1: the only leaf is the root and its code is '0'
SpecialCase ==
    /\ pc = "push"
    /\ i = Len(characters)
    /\ IF Len(pq) = 1
       THEN LET popped == heappop(nodes, pq)
            IN  /\ pq' = popped.heap
                /\ root' = popped.item
                /\ codes_dic' = DictSet(EmptyDict, nodes[popped.item].char, <<"0">>)
                /\ pc' = "codes_done"
       ELSE /\ pc' = "loop"
            /\ UNCHANGED <<pq, root, codes_dic>>
    /\ UNCHANGED <<characters, frequencies, i, nodes, l, r, merges>>
    /\ EncodeUnchanged

\* a mutation of MergeBody: the new node takes the weight of its left child only
MergeBodyNoSum ==
    /\ Len(pq) >= 2
    /\ LET first == heappop(nodes, pq)
           second == heappop(nodes, first.heap)
           newNode == [NewNode(nodes[first.item].data, "")
                          EXCEPT !.left = first.item, !.right = second.item]
           ns == Append(nodes, newNode)
       IN  /\ l' = first.item
           /\ r' = second.item
           /\ nodes' = ns
           /\ pq' = heappush(ns, second.heap, Len(ns))
    /\ merges' = merges + 1
    /\ UNCHANGED <<pc, characters, frequencies, i, codes_dic, root>>
    /\ EncodeUnchanged

\* a mutation of MergeBody: the children of the new node are exchanged
MergeBodySwapped ==
    /\ Len(pq) >= 2
    /\ LET first == heappop(nodes, pq)
           second == heappop(nodes, first.heap)
           newNode == [NewNode(nodes[first.item].data + nodes[second.item].data, "")
                          EXCEPT !.left = second.item, !.right = first.item]
           ns == Append(nodes, newNode)
       IN  /\ l' = first.item
           /\ r' = second.item
           /\ nodes' = ns
           /\ pq' = heappush(ns, second.heap, Len(ns))
    /\ merges' = merges + 1
    /\ UNCHANGED <<pc, characters, frequencies, i, codes_dic, root>>
    /\ EncodeUnchanged

\* one iteration of `while len(pq) >= 2`
MergeBody ==
    /\ Len(pq) >= 2
    /\ LET first == heappop(nodes, pq)
           second == heappop(nodes, first.heap)
           newNode == [NewNode(nodes[first.item].data + nodes[second.item].data, "")
                          EXCEPT !.left = first.item, !.right = second.item]
           ns == Append(nodes, newNode)
       IN  /\ l' = first.item
           /\ r' = second.item
           /\ nodes' = ns
           /\ pq' = heappush(ns, second.heap, Len(ns))
    /\ merges' = merges + 1
    /\ UNCHANGED <<pc, characters, frequencies, i, codes_dic, root>>
    /\ EncodeUnchanged

\* after the loop: root = heappop(pq); preOrder(root, codes_dic, "").
\* heappop of an empty list raises IndexError.
FinishBody ==
    /\ Len(pq) < 2
    /\ IF pq = <<>>
       THEN /\ pc' = "raised"
            /\ result' = "IndexError"
            /\ UNCHANGED <<pq, root, codes_dic>>
       ELSE LET popped == heappop(nodes, pq)
            IN  /\ pq' = popped.heap
                /\ root' = popped.item
                /\ codes_dic' = preOrder(nodes, popped.item, EmptyDict, <<>>)
                /\ pc' = "codes_done"
                /\ UNCHANGED result
    /\ UNCHANGED <<characters, frequencies, i, nodes, l, r, merges>>
    /\ UNCHANGED <<text, encoded_bits, padding, file, dec_inv, dec_tree>>

\* src/Huffman/main.py
Merge == pc = "loop" /\ MergeBody

Finish == pc = "loop" /\ FinishBody

\* src/huffman.py: the loop follows the pushes directly
Merge_v1 == pc = "push" /\ i = Len(characters) /\ MergeBody

Finish_v1 == pc = "push" /\ i = Len(characters) /\ FinishBody

-----------------------------------------------------------------------------
(* huffmanCodes called on a frequency table *)

NoFile == [written |-> FALSE,
           header |-> [codes_dic |-> EmptyDict, padding |-> 0,
                       tree |-> [nodes |-> <<>>, root |-> None]],
           payload |-> <<>>]

NoOutcome == [ret |-> "none", out |-> <<>>, cur |-> <<>>, node |-> None]

\* the frequency tables over the first n symbols of syms, every count in 1..MaxFreq
FreqTables(syms) ==
    UNION {[1..n -> 1..MaxFreq] : n \in 1..Len(syms)}

InitTable(syms) ==
    /\ text = <<>>
    /\ pc = "push"
    /\ result = "none"
    /\ \E f \in FreqTables(syms) :
          /\ frequencies = f
          /\ characters = SubSeq(syms, 1, Len(f))
    /\ i = 0
    /\ nodes = <<>>
    /\ pq = <<>>
    /\ l = None
    /\ r = None
    /\ merges = 0
    /\ codes_dic = EmptyDict
    /\ root = None
    /\ encoded_bits = <<>>
    /\ padding = 0
    /\ file = NoFile
    /\ dec_inv = NoOutcome
    /\ dec_tree = NoOutcome

InitCodes == InitTable(CodeSyms)

NextCodes == PushLeaf \/ SpecialCase \/ Merge \/ Finish

SpecCodes == InitCodes /\ [][NextCodes]_vars

\* huffmanCodes has a step to take: it is pushing leaves or in its loop
Running == pc \in {"push", "loop"}

\* huffmanCodes is a sequential call, so the step it can take is taken.  This
\* is WF_vars(NextCodes) with ENABLED <<NextCodes>>_vars written out as Running.
SpecCodesFair == SpecCodes /\ ([]<>(~Running) \/ []<><<NextCodes>>_vars)

NextV1 == PushLeaf \/ Merge_v1 \/ Finish_v1

SpecV1 == InitCodes /\ [][NextV1]_vars

-----------------------------------------------------------------------------
(* encode_file *)

\* Counter(text): the count of every character, keyed in first-seen order
RECURSIVE Counter(_, _, _)
Counter(txt, k, d) ==
    IF k > Len(txt)
    THEN d
    ELSE Counter(txt, k + 1,
                 DictSet(d, txt[k], IF DictHas(d, txt[k]) THEN DictGet(d, txt[k]) + 1 ELSE 1))

generate_frequency_stats(txt) ==
    LET freq_dict == Counter(txt, 1, EmptyDict)
    IN  [characters |-> DictKeys(freq_dict),
         frequencies |-> DictValues(freq_dict),
         freq_dict |-> freq_dict]

\* bitarray(str): the bit of every character of a code
bitarray(code) == [k \in 1..Len(code) |-> IF code[k] = "1" THEN 1 ELSE 0]

\* for char in text: encoded_bits.extend(codes[char])
RECURSIVE EncodeText(_, _, _, _)
EncodeText(codes, txt, k, bits) ==
    IF k > Len(txt)
    THEN bits
    ELSE EncodeText(codes, txt, k + 1, bits \o DictGet(codes, txt[k]))

Zeros(n) == [k \in 1..n |-> 0]

\* a mutation of PaddingFor: the outer modulo forgotten
PaddingForNoWrap(len) == BitsPerByte - (len % BitsPerByte)

PaddingFor(len) == (BitsPerByte - (len % BitsPerByte)) % BitsPerByte

RECURSIVE BitsToInt(_, _, _)
BitsToInt(bits, k, acc) ==
    IF k > Len(bits) THEN acc ELSE BitsToInt(bits, k + 1, 2 * acc + bits[k])

\* bitarray.tofile: the bits as bytes, most significant bit first, the last
\* byte filled with zero bits
tofile(bits) ==
    LET filled == bits \o Zeros((BitsPerByte - (Len(bits) % BitsPerByte)) % BitsPerByte)
    IN  [b \in 1..(Len(filled) \div BitsPerByte) |->
            BitsToInt(SubSeq(filled, (b - 1) * BitsPerByte + 1, b * BitsPerByte), 1, 0)]

\* bitarray.fromfile: the bits of every byte, most significant bit first
fromfile(bytes) ==
    [k \in 1..(Len(bytes) * BitsPerByte) |->
        (bytes[(k - 1) \div BitsPerByte + 1]
            \div (2 ^ (BitsPerByte - 1 - ((k - 1) % BitsPerByte)))) % 2]

HuffUnchanged == UNCHANGED <<i, nodes, pq, l, r, merges, codes_dic, root>>

\* a mutation of encode_file_read: the empty text is not rejected
encode_file_read_unchecked ==
    /\ pc = "start"
    /\ LET stats == generate_frequency_stats(text)
       IN  /\ characters' = stats.characters
           /\ frequencies' = stats.frequencies
    /\ pc' = "push"
    /\ UNCHANGED <<text, result, encoded_bits, padding, file, dec_inv, dec_tree>>
    /\ HuffUnchanged

\* the text is read; an empty text ends the call, otherwise the frequencies
\* are counted and huffmanCodes(characters, frequencies) is called
encode_file_read ==
    /\ pc = "start"
    /\ IF text = <<>>
       THEN /\ result' = "None"
            /\ pc' = "returned"
            /\ UNCHANGED <<characters, frequencies>>
       ELSE LET stats == generate_frequency_stats(text)
            IN  /\ characters' = stats.characters
                /\ frequencies' = stats.frequencies
                /\ pc' = "push"
                /\ UNCHANGED result
    /\ UNCHANGED <<text, encoded_bits, padding, file, dec_inv, dec_tree>>
    /\ HuffUnchanged

\* huffmanCodes has returned: the text is encoded, padded and written with
\* its header
encode_file_write ==
    /\ pc = "codes_done"
    /\ LET codes == [k \in 1..Len(codes_dic) |->
                        <<codes_dic[k][1], bitarray(codes_dic[k][2])>>]
           encoded == EncodeText(codes, text, 1, <<>>)
           pad == PaddingFor(Len(encoded))
           padded == encoded \o Zeros(pad)
       IN  /\ encoded_bits' = padded
           /\ padding' = pad
           /\ file' = [written |-> TRUE,
                       header |-> [codes_dic |-> codes_dic, padding |-> pad,
                                   tree |-> [nodes |-> nodes, root |-> root]],
                       payload |-> tofile(padded)]
    /\ result' = "stats"
    /\ pc' = "returned"
    /\ UNCHANGED <<text, characters, frequencies, dec_inv, dec_tree>>
    /\ HuffUnchanged

-----------------------------------------------------------------------------
(* The decoders *)

\* s[:k] of Python
SliceTo(s, k) ==
    LET stop == IF k < 0 THEN k + Len(s) ELSE k
    IN  IF stop <= 0 THEN <<>> ELSE IF stop >= Len(s) THEN s ELSE SubSeq(s, 1, stop)

\* a mutation of StripPadding: one bit too many is dropped
StripPaddingOneMore(bits, pad) ==
    IF pad # 0 THEN SliceTo(bits, Len(bits) - pad - 1) ELSE bits

\* if padding: bits = bits[:len(bits) - padding]
StripPadding(bits, pad) ==
    IF pad # 0 THEN SliceTo(bits, Len(bits) - pad) ELSE bits

\* inv = {v: k for k, v in codes_dic.items()}
RECURSIVE Invert(_, _, _)
Invert(d, k, inv) ==
    IF k > Len(d) THEN inv ELSE Invert(d, k + 1, DictSet(inv, d[k][2], d[k][1]))

RECURSIVE inverse_loop(_, _, _, _, _)
inverse_loop(inv, bits, k, out_chars, cur) ==
    IF k > Len(bits)
    THEN [out |-> out_chars, cur |-> cur]
    ELSE LET cur1 == Append(cur, IF bits[k] # 0 THEN "1" ELSE "0")
         IN  IF DictHas(inv, cur1)
             THEN inverse_loop(inv, bits, k + 1, Append(out_chars, DictGet(inv, cur1)), <<>>)
             ELSE inverse_loop(inv, bits, k + 1, out_chars, cur1)

\* the text decode_file_inverse writes, what it returns, and the accumulator
\* `cur` it ends with
decode_inverse(header, bits0) ==
    LET bits == StripPadding(bits0, header.padding)
        inv == Invert(header.codes_dic, 1, EmptyDict)
        done == inverse_loop(inv, bits, 1, <<>>, <<>>)
    IN  [ret |-> "True", out |-> done.out, cur |-> done.cur, node |-> None]

RECURSIVE tree_loop(_, _, _, _, _, _)
tree_loop(ns, rt, bits, k, out_chars, node) ==
    IF k > Len(bits)
    THEN [ret |-> "True", out |-> out_chars, cur |-> <<>>, node |-> node]
    ELSE LET next == IF bits[k] # 0 THEN ns[node].right ELSE ns[node].left
         IN  IF next = None
             THEN [ret |-> "AttributeError", out |-> <<>>, cur |-> <<>>, node |-> None]
             ELSE IF IsLeaf(ns, next)
                  THEN tree_loop(ns, rt, bits, k + 1, Append(out_chars, ns[next].char), rt)
                  ELSE tree_loop(ns, rt, bits, k + 1, out_chars, next)

\* the text decode_file_tree writes, what it returns, and the node it ends on
decode_tree(header, bits0) ==
    LET ns == header.tree.nodes
        rt == header.tree.root
        bits == StripPadding(bits0, header.padding)
    IN  IF rt = None
        THEN [ret |-> "False", out |-> <<>>, cur |-> <<>>, node |-> None]
        ELSE IF IsLeaf(ns, rt)
             THEN [ret |-> "True", out |-> [k \in 1..Len(bits) |-> ns[rt].char],
                   cur |-> <<>>, node |-> rt]
             ELSE tree_loop(ns, rt, bits, 1, <<>>, rt)

DecodeUnchanged ==
    UNCHANGED <<text, pc, result, characters, frequencies, i, nodes, pq, l, r, merges,
                codes_dic, root, encoded_bits, padding, file>>

decode_file_inverse ==
    /\ file.written
    /\ dec_inv.ret = "none"
    /\ dec_inv' = decode_inverse(file.header, fromfile(file.payload))
    /\ UNCHANGED dec_tree
    /\ DecodeUnchanged

decode_file_tree ==
    /\ file.written
    /\ dec_tree.ret = "none"
    /\ dec_tree' = decode_tree(file.header, fromfile(file.payload))
    /\ UNCHANGED dec_inv
    /\ DecodeUnchanged

-----------------------------------------------------------------------------
(* encode_file on a text, then both decoders on the file it wrote *)

Texts == UNION {[1..n -> TextSyms] : n \in 0..MaxLen}

Init ==
    /\ text \in Texts
    /\ pc = "start"
    /\ result = "none"
    /\ characters = <<>>
    /\ frequencies = <<>>
    /\ i = 0
    /\ nodes = <<>>
    /\ pq = <<>>
    /\ l = None
    /\ r = None
    /\ merges = 0
    /\ codes_dic = EmptyDict
    /\ root = None
    /\ encoded_bits = <<>>
    /\ padding = 0
    /\ file = NoFile
    /\ dec_inv = NoOutcome
    /\ dec_tree = NoOutcome

Next ==
    \/ encode_file_read
    \/ PushLeaf
    \/ SpecialCase
    \/ Merge
    \/ Finish
    \/ encode_file_write
    \/ decode_file_inverse
    \/ decode_file_tree

Spec == Init /\ [][Next]_vars

-----------------------------------------------------------------------------
(* Both decoders on an arbitrary container file: a header holding the code *)
(* table and tree of some frequency table, any padding count in 0..7 and   *)
(* any payload of at most one byte                                         *)

Payloads == {<<>>} \cup {<<b>> : b \in 0..(2 ^ BitsPerByte - 1)}

ForeignFile ==
    /\ pc = "codes_done"
    /\ ~file.written
    /\ \E pad \in 0..(BitsPerByte - 1), bytes \in Payloads :
          file' = [written |-> TRUE,
                   header |-> [codes_dic |-> codes_dic, padding |-> pad,
                               tree |-> [nodes |-> nodes, root |-> root]],
                   payload |-> bytes]
    /\ pc' = "foreign"
    /\ UNCHANGED <<text, result, characters, frequencies, encoded_bits, padding,
                   dec_inv, dec_tree>>
    /\ HuffUnchanged

InitContainer == InitTable(ContainerSyms)

NextContainer ==
    \/ PushLeaf
    \/ SpecialCase
    \/ Merge
    \/ Finish
    \/ ForeignFile
    \/ decode_file_inverse
    \/ decode_file_tree

SpecContainer == InitContainer /\ [][NextContainer]_vars

-----------------------------------------------------------------------------
(* Measures of a code table and of a tree *)

Range(s) == {s[k] : k \in 1..Len(s)}

RECURSIVE SumSeq(_, _)
SumSeq(s, k) == IF k > Len(s) THEN 0 ELSE s[k] + SumSeq(s, k + 1)

IsPrefix(p, q) == Len(p) <= Len(q) /\ SubSeq(q, 1, Len(p)) = p

\* the sum over the symbols of codeLength(sym) * freq(sym)
Cost(codes, syms, freq) ==
    SumSeq([k \in 1..Len(syms) |-> Len(DictGet(codes, syms[k])) * freq[k]], 1)

SetMin(S) == CHOOSE x \in S : \A y \in S : x <= y

\* The least cost of a binary tree with the weights ws at its leaves, by
\* trying every order of merging two of the remaining subtrees: the cost of a
\* tree is the sum of the weights of its internal nodes.
RECURSIVE MinTreeCost(_)
MinTreeCost(ws) ==
    IF Len(ws) <= 1
    THEN 0
    ELSE SetMin({ ws[p[1]] + ws[p[2]]
                    + MinTreeCost(Append(
                          [k \in 1..(Len(ws) - 2) |->
                              ws[IF k < p[1] THEN k ELSE IF k + 1 < p[2] THEN k + 1 ELSE k + 2]],
                          ws[p[1]] + ws[p[2]]))
                  : p \in {q \in (1..Len(ws)) \X (1..Len(ws)) : q[1] < q[2]} })

\* The least sum of length * frequency over the prefix-free binary codes of
\* non-empty code words.  A prefix-free code is a binary tree with the symbols
\* at distinct leaves, and a node with one child can be removed without making
\* any code longer, so the least is reached by a tree whose internal nodes all
\* have two children; a single symbol needs one bit.
MinCost(freq) == IF Len(freq) = 1 THEN freq[1] ELSE MinTreeCost(freq)

RECURSIVE Flatten(_, _)
Flatten(ss, k) == IF k > Len(ss) THEN <<>> ELSE ss[k] \o Flatten(ss, k + 1)

\* the characters of the leaves below node n, left to right
RECURSIVE LeafChars(_, _)
LeafChars(ns, n) ==
    IF n = None
    THEN <<>>
    ELSE IF IsLeaf(ns, n)
         THEN <<ns[n].char>>
         ELSE LeafChars(ns, ns[n].left) \o LeafChars(ns, ns[n].right)

Occurrences(s, x) == Cardinality({k \in 1..Len(s) : s[k] = x})

\* the text is N >= 1 repetitions of one symbol
OneSymbolText == text # <<>> /\ \A k \in 1..Len(text) : text[k] = text[1]

-----------------------------------------------------------------------------
(* Claims checked on encode_file followed by the decoders (Spec) *)

\* C1: round trip.  Whatever non-empty text encode_file wrote, each decoder
\* returns True and writes exactly that text, decode_file_inverse from the
\* code table of the header and decode_file_tree from its tree.
C1_RoundTrip ==
    /\ dec_inv.ret # "none" => dec_inv.ret = "True" /\ dec_inv.out = text
    /\ dec_tree.ret # "none" => dec_tree.ret = "True" /\ dec_tree.out = text

\* both decoders have decoded a text of three distinct symbols that needed padding
C1_Witness ==
    /\ dec_inv.ret = "True"
    /\ dec_tree.ret = "True"
    /\ Len(characters) = 3
    /\ Len(text) >= 5
    /\ padding > 0
    /\ dec_inv.out = text
    /\ dec_tree.out = text

\* C5: padding bound.  Once encode_file has packed a text, the padding count
\* is in 0..7, the bit length of the payload is a multiple of 8, the bits
\* appended are exactly `padding` zero bits, and the bits before them are the
\* codes of the characters of the text, in text order.
C5_PaddingBound ==
    file.written =>
        LET unpadded == Flatten([k \in 1..Len(text) |->
                                    bitarray(DictGet(codes_dic, text[k]))], 1)
        IN  /\ padding \in 0..(BitsPerByte - 1)
            /\ file.header.padding = padding
            /\ Len(encoded_bits) % BitsPerByte = 0
            /\ Len(file.payload) * BitsPerByte = Len(encoded_bits)
            /\ fromfile(file.payload) = encoded_bits
            /\ Len(encoded_bits) = Len(unpadded) + padding
            /\ SubSeq(encoded_bits, 1, Len(unpadded)) = unpadded
            /\ \A k \in (Len(unpadded) + 1)..Len(encoded_bits) : encoded_bits[k] = 0

\* a text of three distinct symbols whose codes fill one byte exactly has been
\* packed with no padding
C5_Witness ==
    /\ file.written
    /\ padding = 0
    /\ Len(characters) = 3
    /\ Len(encoded_bits) = BitsPerByte

\* C6: degenerate alphabet.  For a text of N >= 1 repetitions of one symbol,
\* huffmanCodes returns the table {symbol: "0"} and a tree that is one leaf,
\* the text encodes to N zero bits before padding, and each decoder writes N
\* copies of the symbol.
C6_Degenerate ==
    OneSymbolText =>
        /\ pc \in {"codes_done", "returned"} =>
              /\ codes_dic = <<<<text[1], <<"0">>>>>>
              /\ Len(nodes) = 1
              /\ root = 1
              /\ IsLeaf(nodes, root)
              /\ nodes[root].char = text[1]
              /\ nodes[root].data = Len(text)
        /\ file.written =>
              /\ SubSeq(encoded_bits, 1, Len(encoded_bits) - padding) = Zeros(Len(text))
              /\ StripPadding(fromfile(file.payload), file.header.padding) = Zeros(Len(text))
        /\ dec_inv.ret # "none" =>
              dec_inv.ret = "True" /\ dec_inv.out = [k \in 1..Len(text) |-> text[1]]
        /\ dec_tree.ret # "none" =>
              dec_tree.ret = "True" /\ dec_tree.out = [k \in 1..Len(text) |-> text[1]]

\* a text of one symbol repeated has been encoded and decoded by both decoders
C6_Witness ==
    /\ OneSymbolText
    /\ Len(text) >= 3
    /\ dec_inv.ret = "True"
    /\ dec_tree.ret = "True"
    /\ Len(dec_tree.out) = Len(text)

\* C9: empty input.  Encoding an empty text ends the call with the error
\* outcome (the error is printed and None returned) before huffmanCodes is
\* called: no node is created, no file is written, and huffmanCodes never
\* runs on an empty frequency table.
C9_EmptyInput ==
    /\ text = <<>> =>
          /\ pc \in {"start", "returned"}
          /\ pc = "returned" => result = "None"
          /\ nodes = <<>>
          /\ pq = <<>>
          /\ root = None
          /\ ~file.written
          /\ dec_inv.ret = "none"
          /\ dec_tree.ret = "none"
    /\ text # <<>> => result # "None"
    /\ pc \in {"push", "loop", "codes_done", "raised"} => characters # <<>>
    /\ pc # "raised"

\* encode_file has returned from an empty text
C9_Witness == text = <<>> /\ pc = "returned" /\ result = "None"

-----------------------------------------------------------------------------
(* Claims checked on huffmanCodes called on a frequency table (SpecCodes,  *)
(* and SpecV1 for src/huffman.py)                                          *)

\* the code table has exactly one entry per symbol of the frequency table,
\* every code is a non-empty bit string, and no code of one symbol is a prefix
\* of the code of another
CodeTableOK ==
    /\ Len(codes_dic) = Len(characters)
    /\ \A k \in 1..Len(characters) : Occurrences(DictKeys(codes_dic), characters[k]) = 1
    /\ \A k \in 1..Len(codes_dic) :
          /\ codes_dic[k][2] # <<>>
          /\ Range(codes_dic[k][2]) \subseteq {"0", "1"}
    /\ \A j, k \in 1..Len(codes_dic) :
          j # k => ~IsPrefix(codes_dic[j][2], codes_dic[k][2])

\* C3: for every frequency table of at least one symbol, the table returned
\* by huffmanCodes has exactly one entry per symbol, every entry is a
\* non-empty bit string, and no code is a prefix of another symbol's code.
C3_CodeTable == pc = "codes_done" => CodeTableOK

\* C4: optimality.  For every frequency table of up to six symbols, the sum
\* of codeLength(sym) * freq(sym) of the codes huffmanCodes returns is the
\* least such sum of any prefix-free binary code for those frequencies.
C4_Optimal ==
    pc = "codes_done" => Cost(codes_dic, characters, frequencies) = MinCost(frequencies)

\* huffmanCodes has returned the codes of six symbols of unequal counts, which
\* are not all of the same length
C4_Witness ==
    /\ pc = "codes_done"
    /\ Len(characters) = 6
    /\ Range(frequencies) = 1..MaxFreq
    /\ \E j, k \in 1..Len(codes_dic) : Len(codes_dic[j][2]) < Len(codes_dic[k][2])

\* the node is a leaf carrying one symbol, or an internal node with two
\* children, no symbol, and the sum of its children's weights
NodeShapeOK(ns, n) ==
    \/ /\ ns[n].left = None
       /\ ns[n].right = None
       /\ ns[n].char # ""
    \/ /\ ns[n].left \in 1..(n - 1)
       /\ ns[n].right \in 1..(n - 1)
       /\ ns[n].left # ns[n].right
       /\ ns[n].char = ""
       /\ ns[n].data = ns[ns[n].left].data + ns[ns[n].right].data

\* C10: tree shape.  After every step of huffmanCodes and in the tree it
\* returns, every node is a leaf with exactly one symbol or an internal node
\* with exactly two children and no symbol whose weight is the sum of its
\* children's weights; every symbol pushed so far is the symbol of exactly one
\* leaf of the trees of the queue (of the returned tree, once returned); and
\* the weight of the returned root is the sum of all frequencies.
C10_TreeShape ==
    /\ \A n \in 1..Len(nodes) : NodeShapeOK(nodes, n)
    /\ LET held == IF pc = "codes_done" THEN <<root>> ELSE pq
           leaves == Flatten([k \in 1..Len(held) |-> LeafChars(nodes, held[k])], 1)
       IN  pc \in {"push", "loop", "codes_done"} =>
              /\ Len(leaves) = i
              /\ \A k \in 1..i : Occurrences(leaves, characters[k]) = 1
    /\ pc = "codes_done" =>
          /\ root # None
          /\ nodes[root].data = SumSeq(frequencies, 1)
          /\ Len(nodes) = 2 * Len(characters) - 1

\* the tree of six symbols has been returned after five merges
C10_Witness ==
    /\ pc = "codes_done"
    /\ Len(characters) = 6
    /\ merges = 5
    /\ ~IsLeaf(nodes, root)

\* the least first-seen order of a symbol below node n (the order of a symbol
\* is its position in the frequency table)
RECURSIVE TieBreakKey(_, _)
TieBreakKey(ns, n) ==
    IF IsLeaf(ns, n)
    THEN CHOOSE k \in 1..Len(characters) : characters[k] = ns[n].char
    ELSE LET a == TieBreakKey(ns, ns[n].left)
             b == TieBreakKey(ns, ns[n].right)
         IN  IF a < b THEN a ELSE b

\* x comes before y: lower weight, or equal weight and lower key
Before(ns, x, y) ==
    \/ ns[x].data < ns[y].data
    \/ ns[x].data = ns[y].data /\ TieBreakKey(ns, x) < TieBreakKey(ns, y)

\* C8: deterministic tie-break.  In every iteration of the merge loop the
\* node extracted first comes before every other node of the queue, and the
\* node extracted second before every remaining one, in the order of weight
\* and then of least first-seen order of the symbols of the subtree.
C8_TieBreak ==
    [][merges' = merges + 1 =>
          /\ \A q \in Range(pq) \ {l'} : Before(nodes, l', q)
          /\ \A q \in Range(pq) \ {l', r'} : Before(nodes, r', q)]_vars

-----------------------------------------------------------------------------
(* Claims checked on the decoders given an arbitrary container file        *)
(* (SpecContainer)                                                         *)

\* C2: decoder agreement.  For any container, decode_file_inverse and
\* decode_file_tree write the same symbol sequence.
C2_DecoderAgreement ==
    dec_inv.ret # "none" /\ dec_tree.ret # "none" => dec_inv.out = dec_tree.out

\* C7: truncated stream.  A decoder that reaches the end of the bits in the
\* middle of a code fails with TruncatedStreamError: decode_file_inverse when
\* its accumulator is left non-empty, decode_file_tree when its current node
\* is not the root.
C7_Truncated ==
    /\ dec_inv.ret # "none" /\ dec_inv.cur # <<>> => dec_inv.ret = "TruncatedStreamError"
    /\ dec_tree.ret # "none" /\ dec_tree.node # file.header.tree.root =>
          dec_tree.ret = "TruncatedStreamError"

-----------------------------------------------------------------------------
(* Claim checked on the merge loop of huffmanCodes (SpecCodesFair)         *)

\* C11: greedy merge loop.  From a queue of n >= 2 leaves, every iteration
\* removes two distinct nodes of the queue whose weights are the two smallest
\* (no other queued node is lighter than the first, and no remaining one is
\* lighter than the second), makes the first the left child and the second
\* the right child of a new node of their summed weight and inserts it, so
\* the queue shrinks by one; the loop ends after exactly n - 1 iterations
\* with exactly one node in the queue, which is returned as the root, and it
\* does end.
C11_GreedyLoop ==
    /\ [][merges' = merges + 1 =>
             LET new == Len(nodes')
             IN  /\ Len(characters) >= 2
                 /\ l' \in Range(pq)
                 /\ r' \in Range(pq)
                 /\ l' # r'
                 /\ \A q \in Range(pq) : nodes[l'].data <= nodes[q].data
                 /\ \A q \in Range(pq) \ {l'} : nodes[r'].data <= nodes[q].data
                 /\ new = Len(nodes) + 1
                 /\ nodes'[new].left = l'
                 /\ nodes'[new].right = r'
                 /\ nodes'[new].data = nodes[l'].data + nodes[r'].data
                 /\ Range(pq') = (Range(pq) \ {l', r'}) \cup {new}
                 /\ Len(pq') = Len(pq) - 1]_vars
    /\ [](pc = "loop" => /\ Len(pq) = Len(characters) - merges
                         /\ Len(pq) >= 1
                         /\ merges <= Len(characters) - 1)
    /\ [][pc = "loop" /\ pc' = "codes_done" =>
             /\ Len(pq) = 1
             /\ merges = Len(characters) - 1
             /\ root' = pq[1]
             /\ pq' = <<>>]_vars
    /\ <>(pc = "codes_done")

\* the loop has run five times on six leaves, two of them of equal weight,
\* and has left one node, whose children are the last two nodes removed
C11_Witness ==
    /\ pc = "loop"
    /\ Len(characters) = 6
    /\ merges = 5
    /\ Len(pq) = 1
    /\ nodes[pq[1]].left = l
    /\ nodes[pq[1]].right = r
    /\ nodes[l].data = nodes[r].data

====
